---- MODULE Spec2Model ----
(***************************************************************************)
(* Model of the two OLED animations of the repository:                     *)
(*   src/birds.py      a boids flock (Bird, run_simulation)                *)
(*   src/fireflies.py  wandering, blinking fireflies (Firefly, main loop)  *)
(*                                                                         *)
(* Python floats are modelled in fixed point: every position, velocity and *)
(* force is an integer number of hundredths (SCALE units per 1.0).         *)
(* Division truncates toward zero (Quot) and math.sqrt is the floor of the *)
(* square root at that resolution (ISqrt).  The steering weights are kept  *)
(* in thousandths (per mille), see Mul.                                    *)
(***************************************************************************)
EXTENDS Integers, FiniteSets, Sequences, TLC

VARIABLES
    prog,       \* which script runs: "birds", "fireflies", or "firefly" (one Firefly object)
    pc,         \* position of the script in its frame loop
    frame,      \* number of completed frames
    idx,        \* loop index of the for-loop over the agents
    flock,      \* birds.py: flock, a function 0..NumBirds-1 -> bird record
    fireflies,  \* fireflies.py: fireflies, a function 0..n-1 -> firefly record
    image,      \* the PIL drawing buffer: the set of lit pixels
    display,    \* what the OLED shows: the set of lit pixels
    snap,       \* history: the flock as it was at the start of the current tick
    last        \* history: the inputs and intermediate values of the last update call

vars == <<prog, pc, frame, idx, flock, fireflies, image, display, snap, last>>

----------------------------------------------------------------------------
(* Bounds of the model *)

NumBirds == 2
NumFireflies == 2
MaxFrames == 2

----------------------------------------------------------------------------
(* Program constants *)

SCALE == 100

OLED_WIDTH == 128
OLED_HEIGHT == 32

\* hundredths
VISUAL_RANGE == 2000
MIN_SEPARATION == 500
RANDOM_JITTER_MAGNITUDE == 5
MAX_SPEED == 200
MIN_SPEED == 50
WALL_PUSH == 10

\* thousandths
COHESION_WEIGHT == 1
ALIGNMENT_WEIGHT == 50
SEPARATION_WEIGHT == 50
LEADER_FOLLOW_WEIGHT == 10

\* fireflies.py
MOVE_SPEED == 1
BLINK_CHANCE == 5
BLINK_DURATION == 5
FIREFLY_SIZE == 1

----------------------------------------------------------------------------
(* Fixed-point arithmetic *)

Abs(a) == IF a < 0 THEN -a ELSE a

\* a / b for b > 0, truncated toward zero
Quot(a, b) == IF a >= 0 THEN a \div b ELSE -((-a) \div b)

\* a * w for a weight w given in thousandths
Mul(a, w) == Quot(a * w, 10 * SCALE)

RECURSIVE SqrtIter(_, _)
SqrtIter(n, g) ==
    LET h == (g + n \div g) \div 2
    IN IF h >= g THEN g ELSE SqrtIter(n, h)

\* math.sqrt of a sum of squares of hundredths, in hundredths (floor)
ISqrt(n) == IF n = 0 THEN 0 ELSE SqrtIter(n, n)

RECURSIVE Sum(_, _)
Sum(f, S) ==
    IF S = {} THEN 0
    ELSE LET j == CHOOSE k \in S : TRUE
         IN f[j] + Sum(f, S \ {j})

Width == OLED_WIDTH * SCALE
Height == OLED_HEIGHT * SCALE

----------------------------------------------------------------------------
(* birds.py: class Bird *)

\* Bird.__init__: a bird is [x, y, vx, vy]
Bird(x, y, vx, vy) == [x |-> x, y |-> y, vx |-> vx, vy |-> vy]

\* Bird._distance
Distance(a, b) ==
    ISqrt((a.x - b.x) * (a.x - b.x) + (a.y - b.y) * (a.y - b.y))

\* Bird._get_neighbors: the indices of the other birds within the visual range
GetNeighbors(self, i, flk) ==
    {j \in (DOMAIN flk) \ {i} : Distance(self, flk[j]) < VISUAL_RANGE}

\* Bird._rule_cohesion
RuleCohesion(self, flk, nb) ==
    IF nb = {} THEN <<0, 0>>
    ELSE LET center_x == Quot(Sum([j \in nb |-> flk[j].x], nb), Cardinality(nb))
             center_y == Quot(Sum([j \in nb |-> flk[j].y], nb), Cardinality(nb))
         IN <<Mul(center_x - self.x, COHESION_WEIGHT),
              Mul(center_y - self.y, COHESION_WEIGHT)>>

\* Bird._rule_alignment
RuleAlignment(self, flk, nb) ==
    IF nb = {} THEN <<0, 0>>
    ELSE LET avg_vx == Quot(Sum([j \in nb |-> flk[j].vx], nb), Cardinality(nb))
             avg_vy == Quot(Sum([j \in nb |-> flk[j].vy], nb), Cardinality(nb))
         IN <<Mul(avg_vx - self.vx, ALIGNMENT_WEIGHT),
              Mul(avg_vy - self.vy, ALIGNMENT_WEIGHT)>>

\* the neighbors the separation loop steers away from
TooClose(self, flk, nb) ==
    {j \in nb : Distance(self, flk[j]) < MIN_SEPARATION /\ Distance(self, flk[j]) > 0}

\* Bird._rule_separation: steer += (self - other) / dist for every close neighbor
RuleSeparation(self, flk, nb) ==
    IF nb = {} THEN <<0, 0>>
    ELSE LET close == TooClose(self, flk, nb)
             steer_x == Sum([j \in close |->
                             Quot((self.x - flk[j].x) * SCALE, Distance(self, flk[j]))], close)
             steer_y == Sum([j \in close |->
                             Quot((self.y - flk[j].y) * SCALE, Distance(self, flk[j]))], close)
         IN <<Mul(steer_x, SEPARATION_WEIGHT), Mul(steer_y, SEPARATION_WEIGHT)>>

\* Bird._rule_follow_leader (leader_bird is flock[0], never None)
RuleFollowLeader(self, leader_bird) ==
    <<Mul(leader_bird.x - self.x, LEADER_FOLLOW_WEIGHT),
      Mul(leader_bird.y - self.y, LEADER_FOLLOW_WEIGHT)>>

\* a slip in run_simulation: the leader flag given to index 1
IsLeaderOffByOne(i) == i = 1

\* run_simulation: is_leader=(i == 0)
IsLeader(i) == i = 0

\* Bird.update, "Limit speed": v is the velocity after jitter and forces,
\* imp the two random.uniform(-1, 1) draws of the zero-speed branch
LimitSpeed(v, imp) ==
    LET speed == ISqrt(v[1] * v[1] + v[2] * v[2])
    IN IF speed > MAX_SPEED
         THEN <<Quot(Quot(v[1] * SCALE, speed) * MAX_SPEED, SCALE),
                Quot(Quot(v[2] * SCALE, speed) * MAX_SPEED, SCALE)>>
       ELSE IF speed < MIN_SPEED
         THEN IF speed > 0
                THEN <<Quot(Quot(v[1] * SCALE, speed) * MIN_SPEED, SCALE),
                       Quot(Quot(v[2] * SCALE, speed) * MIN_SPEED, SCALE)>>
                ELSE <<Quot(imp[1] * MIN_SPEED, SCALE), Quot(imp[2] * MIN_SPEED, SCALE)>>
       ELSE v

\* a slip in the bounce: the far edge clamps to size, one past the last pixel
ReflectAxisClampToSize(p, v, size) ==
    IF p < 0 THEN <<0, -v + WALL_PUSH>>
    ELSE IF p >= size THEN <<size, -v - WALL_PUSH>>
    ELSE <<p, v>>

\* a slip in the bounce: the near edge pushes without reversing the velocity
ReflectAxisNoFlip(p, v, size) ==
    IF p < 0 THEN <<0, v + WALL_PUSH>>
    ELSE IF p >= size THEN <<size - SCALE, -v - WALL_PUSH>>
    ELSE <<p, v>>

\* Bird.update, "Boundary Bounce Logic" of one axis: <<position, velocity>>
ReflectAxis(p, v, size) ==
    IF p < 0 THEN <<0, -v + WALL_PUSH>>
    ELSE IF p >= size THEN <<size - SCALE, -v - WALL_PUSH>>
    ELSE <<p, v>>

\* Bird.update, "Boundary Bounce Logic": x against width, then y against height
Reflect(b) ==
    LET h == ReflectAxis(b.x, b.vx, Width)
        w == ReflectAxis(b.y, b.vy, Height)
    IN Bird(h[1], w[1], h[2], w[2])

\* the four steering forces of Bird.update on a non-leader, self already jittered
Forces(self, i, flk) ==
    LET neighbors == GetNeighbors(self, i, flk)
        coh == RuleCohesion(self, flk, neighbors)
        ali == RuleAlignment(self, flk, neighbors)
        sep == RuleSeparation(self, flk, neighbors)
        follow == RuleFollowLeader(self, flk[0])
    IN [sep |-> sep,
        total |-> <<coh[1] + ali[1] + sep[1] + follow[1],
                    coh[2] + ali[2] + sep[2] + follow[2]>>]

\* Bird.update up to the speed limit: the jittered bird and the force it receives
Steer(flk, i, jit) ==
    LET own == flk[i]
        self == [own EXCEPT !.vx = @ + jit[1], !.vy = @ + jit[2]]
        f == IF IsLeader(i) THEN [sep |-> <<0, 0>>, total |-> <<0, 0>>]
             ELSE Forces(self, i, flk)
    IN [self |-> self, sep |-> f.sep, force |-> f.total,
        vin |-> <<self.vx + f.total[1], self.vy + f.total[2]>>]

\* Bird.update(flock, is_leader): the updated bird with the values it went through
BirdUpdate(flk, i, jit, imp) ==
    LET s == Steer(flk, i, jit)
        vlim == LimitSpeed(s.vin, imp)
        mid == Bird(flk[i].x + vlim[1], flk[i].y + vlim[2], vlim[1], vlim[2])
    IN [i |-> i, own |-> flk[i], jit |-> jit, imp |-> imp, sep |-> s.sep,
        force |-> s.force, vin |-> s.vin, vlim |-> vlim, mid |-> mid,
        bird |-> Reflect(mid)]

\* draw.point((int(bird.x), int(bird.y)))
Pixel(b) == <<Quot(b.x, SCALE), Quot(b.y, SCALE)>>


----------------------------------------------------------------------------
(* The random draws the model explores *)

\* random.uniform(-RANDOM_JITTER_MAGNITUDE, RANDOM_JITTER_MAGNITUDE), for vx and vy
JitterDraws == {<<0, 0>>, <<RANDOM_JITTER_MAGNITUDE, -RANDOM_JITTER_MAGNITUDE>>}

\* random.uniform(-1, 1), for vx and vy of the zero-speed branch
ImpulseDraws == {<<0, 0>>, <<SCALE, 0>>, <<-SCALE, SCALE>>, <<SCALE \div 2, -SCALE>>}

\* the birds Bird(OLED_WIDTH, OLED_HEIGHT) may construct that the model starts from:
\* position in [0, width] x [0, height], velocity in [-MAX_SPEED, MAX_SPEED]^2
InitBirds ==
    { Bird(70, 1600, -100, 0),        \* about to cross the left edge
      Bird(12700, 3120, 200, 50),     \* too fast, about to cross the right edge
      Bird(1000, 1600, 0, 0) }        \* at rest, in sight of the left edge

NoUpdate == [i |-> -1]

----------------------------------------------------------------------------
(* birds.py: run_simulation *)

LoopPcs == {"frame", "update", "show", "sleep"}

InitBirdsProg ==
    /\ prog = "birds"
    /\ pc = "frame"
    /\ frame = 0
    /\ idx = 0
    /\ flock \in [0 .. NumBirds - 1 -> InitBirds]
    /\ fireflies = <<>>
    /\ image = {}
    /\ display = {}
    /\ snap = flock
    /\ last = NoUpdate

\* while True: image = Image.new(...); draw = ImageDraw.Draw(image)
BirdsNewFrame ==
    /\ prog = "birds" /\ pc = "frame" /\ frame < MaxFrames
    /\ image' = {}
    /\ idx' = 0
    /\ snap' = flock
    /\ pc' = "update"
    /\ UNCHANGED <<prog, frame, flock, fireflies, display, last>>

\* for i, bird in enumerate(flock): bird.update(flock, is_leader=(i == 0)); draw.point(...)
BirdsUpdate ==
    /\ prog = "birds" /\ pc = "update" /\ idx < NumBirds
    /\ \E jit \in JitterDraws :
         \E imp \in (IF Steer(flock, idx, jit).vin = <<0, 0>> THEN ImpulseDraws ELSE {<<0, 0>>}) :
            LET r == BirdUpdate(flock, idx, jit, imp)
            IN /\ flock' = [flock EXCEPT ![idx] = r.bird]
               /\ image' = image \cup {Pixel(r.bird)}
               /\ last' = r
    /\ idx' = idx + 1
    /\ pc' = IF idx + 1 = NumBirds THEN "show" ELSE "update"
    /\ UNCHANGED <<prog, frame, fireflies, display, snap>>

\* display.image(image); display.show()
BirdsShow ==
    /\ prog = "birds" /\ pc = "show"
    /\ display' = image
    /\ pc' = "sleep"
    /\ UNCHANGED <<prog, frame, idx, flock, fireflies, image, snap, last>>

\* time.sleep(0.05), back to the top of the loop
BirdsSleep ==
    /\ prog = "birds" /\ pc = "sleep"
    /\ frame' = frame + 1
    /\ pc' = "frame"
    /\ UNCHANGED <<prog, idx, flock, fireflies, image, display, snap, last>>

\* Ctrl+C anywhere in the loop: except KeyboardInterrupt, then the finally clause
BirdsInterrupt ==
    /\ prog = "birds" /\ pc \in LoopPcs
    /\ pc' = "finally"
    /\ UNCHANGED <<prog, frame, idx, flock, fireflies, image, display, snap, last>>

\* display.image or display.show raises (an I2C error): no except clause matches,
\* the finally clause runs and the exception propagates
BirdsShowFails ==
    /\ prog = "birds" /\ pc = "show"
    /\ pc' = "finally"
    /\ UNCHANGED <<prog, frame, idx, flock, fireflies, image, display, snap, last>>

\* finally: display.fill(0); display.show()
BirdsFinally ==
    /\ prog = "birds" /\ pc = "finally"
    /\ display' = {}
    /\ pc' = "exit"
    /\ UNCHANGED <<prog, frame, idx, flock, fireflies, image, snap, last>>

NextBirds ==
    \/ BirdsNewFrame
    \/ BirdsUpdate
    \/ BirdsShow
    \/ BirdsSleep
    \/ BirdsInterrupt
    \/ BirdsShowFails
    \/ BirdsFinally

SpecBirds == InitBirdsProg /\ [][NextBirds]_vars

----------------------------------------------------------------------------
(* fireflies.py: class Firefly *)

Min(a, b) == IF a < b THEN a ELSE b
Max(a, b) == IF a > b THEN a ELSE b

\* Firefly.__init__ at the pixel random.randint drew
Firefly(x, y) == [x |-> x, y |-> y, is_lit |-> FALSE, blink_timer |-> 0]

\* random.randint(-MOVE_SPEED, MOVE_SPEED)
MoveDraws == -MOVE_SPEED .. MOVE_SPEED

\* random.random(), in hundredths: just below and at BLINK_CHANCE
BlinkDraws == {BLINK_CHANCE - 1, BLINK_CHANCE}

\* Firefly.update, "Random movement" and "Keep firefly within screen bounds"
Move(f, dx, dy) ==
    [f EXCEPT !.x = Max(0, Min(f.x + dx, OLED_WIDTH - 1)),
              !.y = Max(0, Min(f.y + dy, OLED_HEIGHT - 1))]

\* a slip in the blink logic: the light goes off only below zero
BlinkLateOff(f, r) ==
    IF f.is_lit
      THEN LET t == f.blink_timer - 1
           IN [f EXCEPT !.blink_timer = t, !.is_lit = IF t < 0 THEN FALSE ELSE TRUE]
      ELSE IF r < BLINK_CHANCE
             THEN [f EXCEPT !.is_lit = TRUE, !.blink_timer = BLINK_DURATION]
             ELSE f

\* a slip in the blink logic: "if not self.is_lit" after the countdown, not "else"
BlinkRelight(f, r) ==
    LET g == IF f.is_lit
               THEN LET t == f.blink_timer - 1
                    IN [f EXCEPT !.blink_timer = t, !.is_lit = IF t <= 0 THEN FALSE ELSE TRUE]
               ELSE f
    IN IF ~g.is_lit /\ r < BLINK_CHANCE
         THEN [g EXCEPT !.is_lit = TRUE, !.blink_timer = BLINK_DURATION]
         ELSE g

\* Firefly.update, "Handle blinking"
Blink(f, r) ==
    IF f.is_lit
      THEN LET t == f.blink_timer - 1
           IN [f EXCEPT !.blink_timer = t, !.is_lit = IF t <= 0 THEN FALSE ELSE TRUE]
      ELSE IF r < BLINK_CHANCE
             THEN [f EXCEPT !.is_lit = TRUE, !.blink_timer = BLINK_DURATION]
             ELSE f

\* Firefly.update
FireflyUpdate(f, dx, dy, r) == Blink(Move(f, dx, dy), r)

\* Firefly.draw: the pixels of the rectangle it draws when lit
FireflyDraw(f) ==
    IF f.is_lit
      THEN (f.x .. f.x + FIREFLY_SIZE - 1) \X (f.y .. f.y + FIREFLY_SIZE - 1)
      ELSE {}

\* what the history variable keeps of one Firefly.update call
FireflyCall(i, f, r) ==
    [i |-> i, is_lit |-> f.is_lit, blink_timer |-> f.blink_timer, r |-> r]

----------------------------------------------------------------------------
(* One Firefly object under any sequence of update calls *)

InitFirefly ==
    /\ prog = "firefly"
    /\ pc = "object"
    /\ frame = 0
    /\ idx = 0
    /\ flock = <<>>
    /\ fireflies \in {[i \in {0} |-> Firefly(x, y)] :
                        x \in 0 .. OLED_WIDTH - 1, y \in 0 .. OLED_HEIGHT - 1}
    /\ image = {}
    /\ display = {}
    /\ snap = <<>>
    /\ last = NoUpdate

FireflyStep ==
    /\ prog = "firefly"
    /\ \E dx \in MoveDraws, dy \in MoveDraws, r \in BlinkDraws :
          /\ fireflies' = [fireflies EXCEPT ![0] = FireflyUpdate(@, dx, dy, r)]
          /\ last' = FireflyCall(0, fireflies[0], r)
    /\ UNCHANGED <<prog, pc, frame, idx, flock, image, display, snap>>

SpecFirefly == InitFirefly /\ [][FireflyStep]_vars

----------------------------------------------------------------------------
(* fireflies.py: the main animation loop *)

\* the pixels of the fireflies the model starts the loop from
InitPixels == {<<0, 0>>, <<OLED_WIDTH - 1, OLED_HEIGHT - 1>>}

InitFliesProg ==
    /\ prog = "fireflies"
    /\ pc = "frame"
    /\ frame = 0
    /\ idx = 0
    /\ flock = <<>>
    /\ fireflies \in [0 .. NumFireflies - 1 -> {Firefly(p[1], p[2]) : p \in InitPixels}]
    /\ image = {}
    /\ display = {}
    /\ snap = <<>>
    /\ last = NoUpdate

\* while True: draw.rectangle((0, 0, OLED_WIDTH, OLED_HEIGHT), outline=0, fill=0)
FliesNewFrame ==
    /\ prog = "fireflies" /\ pc = "frame" /\ frame < MaxFrames
    /\ image' = {}
    /\ idx' = 0
    /\ pc' = "update"
    /\ UNCHANGED <<prog, frame, flock, fireflies, display, snap, last>>

\* for firefly in fireflies: firefly.update(); firefly.draw(draw)
FliesUpdate ==
    /\ prog = "fireflies" /\ pc = "update" /\ idx < NumFireflies
    /\ \E dx \in MoveDraws, dy \in MoveDraws, r \in BlinkDraws :
          LET f == FireflyUpdate(fireflies[idx], dx, dy, r)
          IN /\ fireflies' = [fireflies EXCEPT ![idx] = f]
             /\ image' = image \cup FireflyDraw(f)
             /\ last' = FireflyCall(idx, fireflies[idx], r)
    /\ idx' = idx + 1
    /\ pc' = IF idx + 1 = NumFireflies THEN "show" ELSE "update"
    /\ UNCHANGED <<prog, frame, flock, display, snap>>

\* display.image(image); display.show()
FliesShow ==
    /\ prog = "fireflies" /\ pc = "show"
    /\ display' = image
    /\ pc' = "sleep"
    /\ UNCHANGED <<prog, frame, idx, flock, fireflies, image, snap, last>>

\* time.sleep(0.05), back to the top of the loop
FliesSleep ==
    /\ prog = "fireflies" /\ pc = "sleep"
    /\ frame' = frame + 1
    /\ pc' = "frame"
    /\ UNCHANGED <<prog, idx, flock, fireflies, image, display, snap, last>>

\* Ctrl+C anywhere in the loop: control moves to except KeyboardInterrupt
FliesInterrupt ==
    /\ prog = "fireflies" /\ pc \in LoopPcs
    /\ pc' = "except_interrupt"
    /\ UNCHANGED <<prog, frame, idx, flock, fireflies, image, display, snap, last>>

\* except KeyboardInterrupt: display.fill(0); display.show()
FliesOnInterrupt ==
    /\ prog = "fireflies" /\ pc = "except_interrupt"
    /\ display' = {}
    /\ pc' = "exit"
    /\ UNCHANGED <<prog, frame, idx, flock, fireflies, image, snap, last>>

\* display.image or display.show raises (an I2C error): control moves to except Exception
FliesShowFails ==
    /\ prog = "fireflies" /\ pc = "show"
    /\ pc' = "except_exception"
    /\ UNCHANGED <<prog, frame, idx, flock, fireflies, image, display, snap, last>>

\* except Exception as e: print(...), and the script ends
FliesOnException ==
    /\ prog = "fireflies" /\ pc = "except_exception"
    /\ pc' = "exit"
    /\ UNCHANGED <<prog, frame, idx, flock, fireflies, image, display, snap, last>>

NextFlies ==
    \/ FliesNewFrame
    \/ FliesUpdate
    \/ FliesShow
    \/ FliesSleep
    \/ FliesInterrupt
    \/ FliesOnInterrupt
    \/ FliesShowFails
    \/ FliesOnException

----------------------------------------------------------------------------
(* Both scripts: the frame loops and the ways they end *)

InitDrivers == InitBirdsProg \/ InitFliesProg

NextDrivers == NextBirds \/ NextFlies

SpecDrivers == InitDrivers /\ [][NextDrivers]_vars

----------------------------------------------------------------------------
(* Properties *)

\* bird i has been through Bird.update at least once
Updated(i) == frame > 0 \/ i < idx

\* the last call of Bird.update is one of the current tick
InTick == prog = "birds" /\ last.i >= 0 /\ last.i = idx - 1

\* the bird of the last Bird.update call as it was after the jitter
Jittered == [last.own EXCEPT !.vx = @ + last.jit[1], !.vy = @ + last.jit[2]]

\* the flock the last Bird.update call read
FlockRead == [flock EXCEPT ![last.i] = last.own]

SpeedSq(vx, vy) == vx * vx + vy * vy

\* C1: after Bird.update every bird's speed lies in [MIN_SPEED, MAX_SPEED]
\* (up to 0.03, the rounding of the fixed-point rescaling)
C1_SpeedInRange ==
    prog = "birds" =>
      \A i \in DOMAIN flock :
         Updated(i) =>
           /\ SpeedSq(flock[i].vx, flock[i].vy) >= (MIN_SPEED - 3) * (MIN_SPEED - 3)
           /\ SpeedSq(flock[i].vx, flock[i].vy) <= (MAX_SPEED + 3) * (MAX_SPEED + 3)

\* C2 as stated: after Bird.update every bird's position lies in
\* [0, width-1] x [0, height-1]
C2_PositionOnLastPixel ==
    prog = "birds" =>
      \A i \in DOMAIN flock :
         Updated(i) =>
           /\ 0 <= flock[i].x /\ flock[i].x <= Width - SCALE
           /\ 0 <= flock[i].y /\ flock[i].y <= Height - SCALE

\* C2 amended: after Bird.update every bird's position lies in
\* [0, width) x [0, height), so that int(x), int(y) is a pixel of the screen
C2_PositionInArea ==
    prog = "birds" =>
      \A i \in DOMAIN flock :
         Updated(i) =>
           /\ 0 <= flock[i].x /\ flock[i].x < Width
           /\ 0 <= flock[i].y /\ flock[i].y < Height

\* a bird crossed the right edge and was put back on the last column, while its
\* y lies strictly between the last row and the bottom edge
C2_Witness ==
    /\ prog = "birds" /\ last.i >= 0
    /\ last.mid.x >= Width
    /\ flock[last.i].x = Width - SCALE
    /\ flock[last.i].y > Height - SCALE

\* C3: the forces a non-leader bird receives in a tick are those computed from
\* the flock as it was at the start of that tick
C3_ForcesFromSnapshot ==
    (InTick /\ last.i >= 1) => last.force = Forces(Jittered, last.i, snap).total

\* C4: whenever a script has left its frame loop and ended, the display is blank
C4_ClearedOnExit == pc = "exit" => display = {}

\* C5: a velocity of exactly (0, 0) at the speed limit is replaced by one of
\* magnitude exactly MIN_SPEED
C5_ZeroSpeedGetsMinSpeed ==
    (prog = "birds" /\ last.i >= 0 /\ last.vin = <<0, 0>>) =>
       SpeedSq(last.vlim[1], last.vlim[2]) = MIN_SPEED * MIN_SPEED

\* C6: the countdown of a firefly is never negative, and the firefly is lit
\* exactly when its countdown is positive
C6_BlinkInvariant ==
    \A i \in DOMAIN fireflies :
       /\ fireflies[i].blink_timer >= 0
       /\ fireflies[i].is_lit <=> fireflies[i].blink_timer > 0

\* a lit firefly has counted down from 2 to 1
C6_Witness ==
    /\ prog = "firefly" /\ last.i = 0
    /\ last.is_lit /\ last.blink_timer = 2
    /\ fireflies[0].is_lit /\ fireflies[0].blink_timer = 1

\* C7: a lit firefly with countdown 1 is unlit with countdown 0 after one
\* Firefly.update, whatever the random draw
C7_DarkAfterLastLitTick ==
    (prog = "firefly" /\ last.i >= 0 /\ last.is_lit /\ last.blink_timer = 1) =>
       /\ ~fireflies[last.i].is_lit
       /\ fireflies[last.i].blink_timer = 0

\* a firefly went dark on a tick whose draw would have lit an unlit firefly
C7_Witness ==
    /\ prog = "firefly" /\ last.i = 0
    /\ last.is_lit /\ last.blink_timer = 1
    /\ last.r < BLINK_CHANCE
    /\ ~fireflies[0].is_lit

\* what C8 says the bounce does to one axis
Bounced(p, v, size, q, w) ==
    /\ p < 0 => (q = 0 /\ w = -v + WALL_PUSH)
    /\ p >= size => (q = size - SCALE /\ w = -v - WALL_PUSH)
    /\ (0 <= p /\ p < size) => (q = p /\ w = v)

\* C8: the bounce acts on the position after integration, on each axis alone:
\* below 0 the coordinate becomes 0, at or above size it becomes size-1, the
\* velocity component is reversed and pushed 0.1 off the wall; otherwise both
\* are left as they are
C8_Reflection ==
    (prog = "birds" /\ last.i >= 0) =>
       /\ Bounced(last.mid.x, last.mid.vx, Width, flock[last.i].x, flock[last.i].vx)
       /\ Bounced(last.mid.y, last.mid.vy, Height, flock[last.i].y, flock[last.i].vy)

\* the bird at x = -0.3 with vx = -1.0 after integration ends at x = 0, vx = +1.1,
\* its y and vy untouched
C8_Witness ==
    /\ prog = "birds" /\ last.i >= 0
    /\ last.mid.x = -30 /\ last.mid.vx = -SCALE
    /\ flock[last.i].x = 0 /\ flock[last.i].vx = SCALE + WALL_PUSH
    /\ flock[last.i].y = last.mid.y /\ flock[last.i].vy = last.mid.vy

\* a bird after the speed limit, the integration and the bounce, from the
\* velocity v that reaches the speed limit
Advance(own, v, imp) ==
    LET vlim == LimitSpeed(v, imp)
    IN Reflect(Bird(own.x + vlim[1], own.y + vlim[2], vlim[1], vlim[2]))

\* the sum of the four rules on the bird self of index i in flock flk
FourForces(self, i, flk) ==
    LET nb == GetNeighbors(self, i, flk)
        c == RuleCohesion(self, flk, nb)
        a == RuleAlignment(self, flk, nb)
        s == RuleSeparation(self, flk, nb)
        l == RuleFollowLeader(self, flk[0])
    IN <<c[1] + a[1] + s[1] + l[1], c[2] + a[2] + s[2] + l[2]>>

\* C9: the bird of index 0 receives no force, its new state follows from its own
\* state, the jitter, the speed limit and the bounce alone; every other bird
\* receives the sum of the four forces
C9_LeaderUnforced ==
    (prog = "birds" /\ last.i >= 0) =>
       /\ last.i = 0 =>
            /\ last.force = <<0, 0>>
            /\ flock[0] = Advance(last.own, <<Jittered.vx, Jittered.vy>>, last.imp)
       /\ last.i >= 1 =>
            LET f == FourForces(Jittered, last.i, FlockRead)
            IN /\ last.force = f
               /\ flock[last.i] =
                    Advance(last.own, <<Jittered.vx + f[1], Jittered.vy + f[2]>>, last.imp)

\* the leader was updated with another bird in sight, whose four rules would
\* have given it a force other than (0, 0)
C9_Witness ==
    /\ prog = "birds" /\ last.i = 0
    /\ GetNeighbors(Jittered, 0, FlockRead) # {}
    /\ FourForces(Jittered, 0, FlockRead) # <<0, 0>>

\* the separation force C10 describes: every neighbor at distance 0 < d < MIN_SEPARATION
\* adds the unit vector from it to self scaled by 1/d
ScaledSeparation(self, flk, nb) ==
    LET close == {j \in nb : Distance(self, flk[j]) > 0
                              /\ Distance(self, flk[j]) < MIN_SEPARATION}
        unit(a, d) == Quot(a * SCALE, d)
        sx == Sum([j \in close |->
                   Quot(unit(self.x - flk[j].x, Distance(self, flk[j])) * SCALE,
                        Distance(self, flk[j]))], close)
        sy == Sum([j \in close |->
                   Quot(unit(self.y - flk[j].y, Distance(self, flk[j])) * SCALE,
                        Distance(self, flk[j]))], close)
    IN <<Mul(sx, SEPARATION_WEIGHT), Mul(sy, SEPARATION_WEIGHT)>>

\* C10: the separation force of a bird is SEPARATION_WEIGHT times the sum, over
\* the neighbors at distance 0 < d < MIN_SEPARATION, of the unit vector from the
\* neighbor to the bird scaled by 1/d (up to 0.01, the fixed-point rounding)
C10_SeparationScaledByDistance ==
    (prog = "birds" /\ last.i >= 1) =>
       LET s == ScaledSeparation(Jittered, FlockRead,
                                 GetNeighbors(Jittered, last.i, FlockRead))
       IN /\ Abs(last.sep[1] - s[1]) <= 1
          /\ Abs(last.sep[2] - s[2]) <= 1

====
